---------------------------- MODULE Spec2Model ----------------------------
(***************************************************************************)
(* A model of cubemximporter.py (CubeMXImporter 0.2.3): the tool that      *)
(* imports a CubeMX generated project into an Eclipse project made with   *)
(* the GNU ARM plugin.                                                     *)
(*                                                                         *)
(* Text is modelled as a sequence of one-character strings, so that the   *)
(* formatting, searching, replacing and escaping the program does on      *)
(* strings are computed, not assumed.                                      *)
(***************************************************************************)
EXTENDS Integers, Sequences, FiniteSets, TLC

VARIABLES
    dryrun,        \* self.dryrun
    projectRoot,   \* self.projectRoot: the parsed .cproject of the Eclipse project
    cprojectFile,  \* the .cproject file of the Eclipse project, as text on disk
    call,          \* the last method invoked on the importer, with its arguments
    ncalls,        \* how many methods the caller has invoked so far
    memLD,         \* ldscripts/mem.ld of the Eclipse project: its lines on disk
    memLDWrites,   \* how many times mem.ld has been written
    log,           \* the messages given to self.logger.info, in order
    cubemx,        \* the CubeMX project folder on disk
    paths,         \* eclipseprojectpath, cubemxprojectpath, sw4stm32projectpath
    hal,           \* HAL_TYPE and HAL_MCU_TYPE
    sfs,           \* the files and folders of the CubeMX project
    dfs,           \* the files and folders of the Eclipse project
    cprojectIO     \* how many times the .cproject file was parsed, and written

patchVars == <<projectRoot, cprojectFile, cprojectIO>>
callVars == <<call, ncalls>>
ldVars == <<memLD, memLDWrites, log>>
detVars == <<cubemx, paths, hal>>
fsVars == <<sfs, dfs>>
vars == <<dryrun, projectRoot, cprojectFile, call, ncalls, memLD, memLDWrites, log,
          cubemx, paths, hal, sfs, dfs, cprojectIO>>

\* what a component leaves alone
notPatch == <<ldVars, detVars, fsVars>>
notLD == <<patchVars, detVars, fsVars>>
notDetect == <<patchVars, ldVars, fsVars>>
notMerge == <<patchVars, ldVars, detVars>>

(***************************************************************************)
(* Bounds of the model.                                                    *)
(***************************************************************************)
MaxCalls == 2      \* methods a caller invokes in one behaviour of a component
MaxConfigs == 2    \* build configurations (option nodes of one superClass)

(***************************************************************************)
(* Strings.                                                                *)
(***************************************************************************)
Range(s) == {s[i] : i \in 1..Len(s)}

\* s[i..] starts with pat
StartsAt(s, i, pat) ==
    /\ i + Len(pat) - 1 <= Len(s)
    /\ \A k \in 1..Len(pat) : s[i + k - 1] = pat[k]

\* Python: pat in s, s.find(pat) >= 0
Contains(s, pat) == \E i \in 1..(Len(s) + 1) : StartsAt(s, i, pat)

\* Python: s.replace(pat, rep), leftmost occurrences, not overlapping
RECURSIVE ReplaceFrom(_, _, _, _)
ReplaceFrom(s, i, pat, rep) ==
    IF i > Len(s) THEN <<>>
    ELSE IF StartsAt(s, i, pat)
         THEN rep \o ReplaceFrom(s, i + Len(pat), pat, rep)
         ELSE <<s[i]>> \o ReplaceFrom(s, i + 1, pat, rep)

Replace(s, pat, rep) == ReplaceFrom(s, 1, pat, rep)

QUOTE == <<"\"">>
AMP == <<"&">>
ENT_QUOT == <<"&","q","u","o","t",";">>
ENT_AMP == <<"&","a","m","p",";">>
ENT_LT == <<"&","l","t",";">>
ENT_GT == <<"&","g","t",";">>

\* include paths and macros of the projects of the model
P_INCLUDE == <<".",".","/","i","n","c","l","u","d","e">>
P_DEVICE == <<".",".","/","s","y","s","t","e","m","/","i","n","c","l","u","d","e","/","c","m","s","i","s","/","d","e","v","i","c","e">>
P_HAL == <<".",".","/","s","y","s","t","e","m","/","i","n","c","l","u","d","e","/","s","t","m","3","2","f","4","x","x">>
M_DEBUG == <<"D","E","B","U","G">>
M_F429 == <<"S","T","M","3","2","F","4","2","9","x","x">>
M_L053 == <<"S","T","M","3","2","L","0","5","3","x","x">>

(***************************************************************************)
(* lxml.  etree.tostring writes an attribute value with & < > and the      *)
(* double quote replaced by their entities.                                *)
(***************************************************************************)
EscapeChar(c) ==
    CASE c = "&" -> ENT_AMP
      [] c = "<" -> ENT_LT
      [] c = ">" -> ENT_GT
      [] c = "\"" -> ENT_QUOT
      [] OTHER -> <<c>>

RECURSIVE EscapeFrom(_, _)
EscapeFrom(s, i) ==
    IF i > Len(s) THEN <<>> ELSE EscapeChar(s[i]) \o EscapeFrom(s, i + 1)

EscapeAttrib(s) == EscapeFrom(s, 1)

(***************************************************************************)
(* The Eclipse project file.  A document is the option nodes of each       *)
(* superClass in document order, each the sequence of the "value"          *)
(* attributes of its listOptionValue children, and the sourceEntries       *)
(* nodes, each the sequence of the "name" attributes of its entries.       *)
(***************************************************************************)
AsmIncludePaths == "ilg.gnuarmeclipse.managedbuild.cross.option.assembler.include.paths"
CIncludePaths == "ilg.gnuarmeclipse.managedbuild.cross.option.c.compiler.include.paths"
CPPIncludePaths == "ilg.gnuarmeclipse.managedbuild.cross.option.cpp.compiler.include.paths"
AsmDefs == "ilg.gnuarmeclipse.managedbuild.cross.option.assembler.defs"
CDefs == "ilg.gnuarmeclipse.managedbuild.cross.option.c.compiler.defs"
CPPDefs == "ilg.gnuarmeclipse.managedbuild.cross.option.cpp.compiler.defs"

IncludeSections == {AsmIncludePaths, CIncludePaths, CPPIncludePaths}
MacroSections == {AsmDefs, CDefs, CPPDefs}
Sections == IncludeSections \cup MacroSections

NoError == "none"

EmptyProject == [options |-> [s \in Sections |-> <<>>], sourceEntries |-> <<>>]

\* The inner loop of __addOptionValuesToProject over one option node.
FormatPattern(quote, v) == IF quote THEN QUOTE \o v \o QUOTE ELSE v

StoredValue(quote, v) == IF quote THEN ENT_QUOT \o v \o ENT_QUOT ELSE v

RECURSIVE AppendMissing(_, _, _, _, _)
AppendMissing(opt, values, i, quote, optionsValues) ==
    IF i > Len(values) THEN opt
    ELSE IF FormatPattern(quote, values[i]) \notin optionsValues
         THEN AppendMissing(Append(opt, StoredValue(quote, values[i])),
                            values, i + 1, quote, optionsValues)
         ELSE AppendMissing(opt, values, i + 1, quote, optionsValues)

\* opt[0] is read only when a value is to be appended
NeedsTemplate(opt, values, quote, optionsValues) ==
    /\ Len(opt) = 0
    /\ \E i \in 1..Len(values) : FormatPattern(quote, values[i]) \notin optionsValues

AddOptionValuesToProject(root, dry, values, section, quote) ==
    IF dry THEN [root |-> root, err |-> NoError]
    ELSE
      LET options == root.options[section] IN
      IF Len(options) = 0 THEN [root |-> root, err |-> "IndexError"]
      ELSE
        LET optionsValues == Range(options[1])
            bad == {k \in 1..Len(options) :
                       NeedsTemplate(options[k], values, quote, optionsValues)}
            stop == IF bad = {} THEN Len(options) + 1
                    ELSE CHOOSE k \in bad : \A j \in bad : k <= j
            patched == [k \in 1..Len(options) |->
                          IF k < stop
                          THEN AppendMissing(options[k], values, 1, quote, optionsValues)
                          ELSE options[k]]
        IN [root |-> [root EXCEPT !.options[section] = patched],
            err |-> IF bad = {} THEN NoError ELSE "IndexError"]

RECURSIVE AppendEntries(_, _, _)
AppendEntries(source, entries, i) ==
    IF i > Len(entries) THEN source
    ELSE AppendEntries(Append(source, entries[i]), entries, i + 1)

AddSourceEntriesToProject(root, entries) ==
    LET sources == root.sourceEntries
        bad == {k \in 1..Len(sources) : Len(sources[k]) = 0 /\ Len(entries) > 0}
        stop == IF bad = {} THEN Len(sources) + 1
                ELSE CHOOSE k \in bad : \A j \in bad : k <= j
        patched == [k \in 1..Len(sources) |->
                      IF k < stop THEN AppendEntries(sources[k], entries, 1)
                      ELSE sources[k]]
    IN [root |-> [root EXCEPT !.sourceEntries = patched],
        err |-> IF bad = {} THEN NoError ELSE "IndexError"]

\* etree.tostring alone, without the replacement that follows it
SavedTextEscapedOnly(v) == EscapeAttrib(v)

\* saveEclipseProjectFile: etree.tostring, then "&amp;" replaced by "&"
SavedText(v) == Replace(EscapeAttrib(v), ENT_AMP, AMP)

SerializeProject(root) ==
    [options |-> [s \in Sections |->
                    [k \in 1..Len(root.options[s]) |->
                       [j \in 1..Len(root.options[s][k]) |->
                          SavedText(root.options[s][k][j])]]],
     sourceEntries |-> root.sourceEntries]

SaveEclipseProjectFile(root, dry, file) ==
    IF dry THEN file ELSE [exists |-> TRUE, doc |-> SerializeProject(root)]

\* the count of the reads and writes of the .cproject file: none so far, one
\* more open(projectFile).read(), one more open(projectFile, "w+").write
NoIO == [reads |-> 0, writes |-> 0]
ReadOnce(io) == [io EXCEPT !.reads = @ + 1]
WrittenUnlessDry(io, dry) == IF dry THEN io ELSE [io EXCEPT !.writes = @ + 1]

(***************************************************************************)
(* Path validation and detectHALInfo.  A path is the sequence of its       *)
(* components; None and the empty string are the empty sequence.  The      *)
(* CubeMX folder on disk is: whether .mxproject and the SW4STM32 subfolder *)
(* exist, the root .cproject (absent, or its tool-chain text), and the     *)
(* .cproject files os.walk meets below sw4stm32projectpath, in the order   *)
(* it meets them, each given by its option nodes of the superClass         *)
(* gnu.c.compiler.option.preprocessor.def.symbols; and, for the last file  *)
(* met, its option nodes of gnu.c.compiler.option.include.paths.           *)
(***************************************************************************)
None == <<>>
Str_ac6 == <<"a","c","6">>
Str_STM32 == <<"S","T","M","3","2">>
Digits == {"0","1","2","3","4","5","6","7","8","9"}

NoPaths == [eclipseprojectpath |-> <<>>, cubemxprojectpath |-> None,
            sw4stm32projectpath |-> None]
NoHAL == [HAL_TYPE |-> None, HAL_MCU_TYPE |-> None]
NoCubeMXProject == [mxproject |-> FALSE, sw4stm32 |-> FALSE,
                    cproject |-> [exists |-> FALSE, text |-> <<>>], found |-> <<>>,
                    includes |-> <<>>]

\* re.search("([FL][0-9])", s): the places where the pattern matches
TokenPlaces(s) == {i \in 1..(Len(s) - 1) : s[i] \in {"F", "L"} /\ s[i + 1] \in Digits}

FirstPlace(S) == CHOOSE i \in S : \A j \in S : i <= j

\* the loop of detectHALInfo over the values of the option node, from value i
RECURSIVE DetectLoop(_, _, _)
DetectLoop(options, i, h) ==
    IF i > Len(options) THEN [hal |-> h, err |-> NoError]
    ELSE IF Contains(options[i], Str_STM32)
         THEN IF TokenPlaces(options[i]) = {}
              THEN [hal |-> [h EXCEPT !.HAL_MCU_TYPE = options[i]],
                    err |-> "AttributeError"]
              ELSE LET at == FirstPlace(TokenPlaces(options[i])) IN
                   DetectLoop(options, i + 1,
                              [HAL_MCU_TYPE |-> options[i],
                               HAL_TYPE |-> <<options[i][at], options[i][at + 1]>>])
         ELSE DetectLoop(options, i + 1, h)

InvalidSW4 == "InvalidSW4STM32Project"

DetectHALInfo(found, h) ==
    IF Len(found) = 0 THEN [hal |-> h, err |-> InvalidSW4]
    ELSE LET root == found[Len(found)] IN
         IF Len(root) = 0 THEN [hal |-> h, err |-> "IndexError"]
         ELSE DetectLoop(root[1], 1, h)

SetEclipseProjectPath(path, file, p) ==
    IF file.exists
    THEN [paths |-> [p EXCEPT !.eclipseprojectpath = <<path>>], err |-> NoError]
    ELSE [paths |-> p, err |-> "InvalidEclipseFolder"]

\* the validation with the test of the root .cproject's text left out
ValidateCubeMXPathAnyToolchain(path, src, p) ==
    IF src.mxproject
    THEN IF src.sw4stm32
         THEN [paths |-> [p EXCEPT !.cubemxprojectpath = <<path>>,
                                   !.sw4stm32projectpath = <<path, "SW4STM32">>],
               err |-> NoError]
         ELSE IF src.cproject.exists
              THEN [paths |-> [p EXCEPT !.cubemxprojectpath = <<path>>,
                                        !.sw4stm32projectpath = <<path>>],
                    err |-> NoError]
              ELSE [paths |-> p, err |-> "InvalidSW4STM32Project"]
    ELSE [paths |-> p, err |-> "InvalidCubeMXFolder"]

\* the validation of setCubeMXProjectPath: the paths it stores, and whether
\* it goes on to detectHALInfo
ValidateCubeMXPath(path, src, p) ==
    IF src.mxproject
    THEN IF src.sw4stm32
         THEN [paths |-> [p EXCEPT !.cubemxprojectpath = <<path>>,
                                   !.sw4stm32projectpath = <<path, "SW4STM32">>],
               err |-> NoError]
         ELSE IF src.cproject.exists
              THEN IF ~Contains(src.cproject.text, Str_ac6)
                   THEN [paths |-> p, err |-> InvalidSW4]
                   ELSE [paths |-> [p EXCEPT !.cubemxprojectpath = <<path>>,
                                             !.sw4stm32projectpath = <<path>>],
                         err |-> NoError]
              ELSE [paths |-> p, err |-> InvalidSW4]
    ELSE [paths |-> p, err |-> "InvalidCubeMXFolder"]

SetCubeMXProjectPath(path, src, p, h) ==
    LET v == ValidateCubeMXPath(path, src, p) IN
    IF v.err # NoError THEN [paths |-> v.paths, hal |-> h, err |-> v.err]
    ELSE LET d == DetectHALInfo(src.found, h) IN
         [paths |-> v.paths, hal |-> d.hal, err |-> d.err]

(***************************************************************************)
(* The file system.  A tree is a function from the paths that exist in it  *)
(* (sequences of names, relative to the project folder, <<>> the folder    *)
(* itself) to what is there: a folder, or a file with its content.         *)
(***************************************************************************)
Dir == [kind |-> "dir", data |-> 0]
File(d) == [kind |-> "file", data |-> d]
EmptyFS == [p \in {<<>>} |-> Dir]

Exists(fs, p) == p \in DOMAIN fs
IsFile(fs, p) == p \in DOMAIN fs /\ fs[p].kind = "file"
IsDir(fs, p) == p \in DOMAIN fs /\ fs[p].kind = "dir"
IsPrefix(d, p) == Len(d) <= Len(p) /\ SubSeq(p, 1, Len(d)) = d
Parent(p) == SubSeq(p, 1, Len(p) - 1)
Under(fs, d) == {p \in DOMAIN fs : IsPrefix(d, p)}
Ancestors(p) == {SubSeq(p, 1, n) : n \in 0..(Len(p) - 1)}

\* os.listdir(d): the names in folder d
ListDir(fs, d) == {p[Len(p)] : p \in {q \in DOMAIN fs : Len(q) = Len(d) + 1 /\ IsPrefix(d, q)}}

\* the orders in which os.listdir may give names
Orders(S) == {f \in [1..Cardinality(S) -> S] : \A i, j \in DOMAIN f : f[i] = f[j] => i = j}

WithEntries(fs, new) == [p \in DOMAIN fs \cup DOMAIN new |-> IF p \in DOMAIN new THEN new[p] ELSE fs[p]]
Without(fs, gone) == [p \in DOMAIN fs \ gone |-> fs[p]]

\* shutil.rmtree(d), os.unlink(f), os.remove(f)
RmTree(fs, d) ==
    IF IsDir(fs, d) THEN [fs |-> Without(fs, Under(fs, d)), err |-> NoError]
    ELSE [fs |-> fs, err |-> IF Exists(fs, d) THEN "OSError.ENOTDIR" ELSE "OSError.ENOENT"]

Unlink(fs, f) ==
    IF IsFile(fs, f) THEN [fs |-> Without(fs, {f}), err |-> NoError]
    ELSE [fs |-> fs, err |-> IF Exists(fs, f) THEN "OSError.EISDIR" ELSE "OSError.ENOENT"]

\* shutil.copyfile(src, dst) leaving a file already at dst as it is
CopyFileKeepExisting(from, src, to, dst) ==
    IF ~IsFile(from, src) THEN [fs |-> to, err |-> "IOError.ENOENT"]
    ELSE IF IsDir(to, dst) THEN [fs |-> to, err |-> "IOError.EISDIR"]
    ELSE IF ~IsDir(to, Parent(dst)) THEN [fs |-> to, err |-> "IOError.ENOENT"]
    ELSE IF IsFile(to, dst) THEN [fs |-> to, err |-> NoError]
    ELSE [fs |-> WithEntries(to, [p \in {dst} |-> from[src]]), err |-> NoError]

\* shutil.copyfile(src, dst): dst is created, or overwritten
CopyFile(from, src, to, dst) ==
    IF ~IsFile(from, src) THEN [fs |-> to, err |-> "IOError.ENOENT"]
    ELSE IF IsDir(to, dst) THEN [fs |-> to, err |-> "IOError.EISDIR"]
    ELSE IF ~IsDir(to, Parent(dst)) THEN [fs |-> to, err |-> "IOError.ENOENT"]
    ELSE [fs |-> WithEntries(to, [p \in {dst} |-> from[src]]), err |-> NoError]

\* shutil.copytree(src, dst): os.makedirs(dst) fails when dst exists
CopyTree(from, src, to, dst) ==
    IF ~IsDir(from, src) THEN [fs |-> to, err |-> "OSError.ENOENT"]
    ELSE IF Exists(to, dst) THEN [fs |-> to, err |-> "OSError.EEXIST"]
    ELSE IF \E a \in Ancestors(dst) : IsFile(to, a) THEN [fs |-> to, err |-> "OSError.ENOTDIR"]
    ELSE LET made == [a \in Ancestors(dst) \ DOMAIN to |-> Dir]
             copied == [p \in {dst \o SubSeq(q, Len(src) + 1, Len(q)) : q \in Under(from, src)}
                          |-> from[src \o SubSeq(p, Len(dst) + 1, Len(p))]]
         IN [fs |-> WithEntries(WithEntries(to, made), copied), err |-> NoError]

\* the loop of copyTreeContent over the names, in the order listdir gave them
RECURSIVE CopyEntries(_, _, _, _, _, _, _)
CopyEntries(from, src, to, dst, dry, order, i) ==
    IF i > Len(order) THEN [fs |-> to, err |-> NoError]
    ELSE LET f == order[i]
             r == IF dry THEN [fs |-> to, err |-> NoError]
                  ELSE IF IsFile(from, src \o <<f>>)
                       THEN CopyFile(from, src \o <<f>>, to, dst \o <<f>>)
                       ELSE IF IsDir(from, src \o <<f>>)
                            THEN CopyTree(from, src \o <<f>>, to, dst \o <<f>>)
                            ELSE [fs |-> to, err |-> NoError]
         IN IF r.err # NoError THEN r
            ELSE CopyEntries(from, src, r.fs, dst, dry, order, i + 1)

\* copyTreeContent after emptying dst: a replacement, not a merge
CopyTreeContentReplacing(from, src, to, dst, dry, order) ==
    IF ~IsDir(from, src) THEN [fs |-> to, err |-> "OSError.ENOENT"]
    ELSE CopyEntries(from, src,
                     IF dry THEN to ELSE Without(to, Under(to, dst) \ {dst}),
                     dst, dry, order, 1)

CopyTreeContent(from, src, to, dst, dry, order) ==
    IF ~IsDir(from, src) THEN [fs |-> to, err |-> "OSError.ENOENT"]
    ELSE CopyEntries(from, src, to, dst, dry, order, 1)

\* os.makedirs(d), os.mkdir(d), os.rename(a, b), shutil.copy(src, dst)
MakeDirs(fs, d) ==
    IF Exists(fs, d) THEN [fs |-> fs, err |-> "OSError.EEXIST"]
    ELSE IF \E a \in Ancestors(d) : IsFile(fs, a) THEN [fs |-> fs, err |-> "OSError.ENOTDIR"]
    ELSE [fs |-> WithEntries(fs, [a \in (Ancestors(d) \cup {d}) \ DOMAIN fs |-> Dir]),
          err |-> NoError]

Mkdir(fs, d) ==
    IF Exists(fs, d) THEN [fs |-> fs, err |-> "OSError.EEXIST"]
    ELSE IF ~IsDir(fs, Parent(d)) THEN [fs |-> fs, err |-> "OSError.ENOENT"]
    ELSE [fs |-> WithEntries(fs, [a \in {d} |-> Dir]), err |-> NoError]

Rename(fs, a, b) ==
    IF ~IsFile(fs, a) THEN [fs |-> fs, err |-> "OSError.ENOENT"]
    ELSE IF IsDir(fs, b) THEN [fs |-> fs, err |-> "OSError.EISDIR"]
    ELSE [fs |-> WithEntries(Without(fs, {a}), [q \in {b} |-> fs[a]]), err |-> NoError]

ShutilCopy(from, src, to, dst) ==
    IF IsDir(to, dst) /\ Len(src) > 0
    THEN CopyFile(from, src, to, dst \o <<src[Len(src)]>>)
    ELSE CopyFile(from, src, to, dst)

\* deleteTreeContent(tree): everything in the folder is deleted
DeleteTreeContent(fs, tree, dry) ==
    IF ~IsDir(fs, tree) THEN [fs |-> fs, err |-> "OSError.ENOENT"]
    ELSE [fs |-> IF dry THEN fs ELSE Without(fs, Under(fs, tree) \ {tree}), err |-> NoError]

\* purge(rootdir, pattern), matching being the names re.search(pattern, f) accepts
Purge(fs, rootdir, matching) ==
    IF ~IsDir(fs, rootdir) THEN [fs |-> fs, err |-> "OSError.ENOENT"]
    ELSE [fs |-> Without(fs, UNION {Under(fs, rootdir \o <<n>>) :
                                       n \in ListDir(fs, rootdir) \cap matching}),
          err |-> NoError]

(***************************************************************************)
(* Names built from HAL_TYPE and HAL_MCU_TYPE.  A file name is one string  *)
(* in a tree, so each "...%s..." % HAL_TYPE of the program is given by its *)
(* value for the families and parts of the model.                          *)
(***************************************************************************)
F4 == <<"F","4">>
L0 == <<"L","0">>

\* "stm32%sxx" % HAL_TYPE.lower() and "stm32%s-stdperiph" % HAL_TYPE.lower()
Stm32xx(h) == IF h = F4 THEN "stm32f4xx" ELSE "stm32l0xx"
Stm32Stdperiph(h) == IF h = F4 THEN "stm32f4-stdperiph" ELSE "stm32l0-stdperiph"
\* "STM32%sxx" % HAL_TYPE and "STM32%sxx_HAL_Driver" % HAL_TYPE
STM32xx(h) == IF h = F4 THEN "STM32F4xx" ELSE "STM32L0xx"
HALDriver(h) == IF h = F4 THEN "STM32F4xx_HAL_Driver" ELSE "STM32L0xx_HAL_Driver"
\* "system_stm32%sxx.c" % HAL_TYPE.lower()
SystemC(h) == IF h = F4 THEN "system_stm32f4xx.c" ELSE "system_stm32l0xx.c"
\* "stm32%sxx_hal_msp_template.c" and "stm32%sxx_hal_timebase_tim_template.c"
MspTemplate(h) == IF h = F4 THEN "stm32f4xx_hal_msp_template.c"
                  ELSE "stm32l0xx_hal_msp_template.c"
TimebaseTemplate(h) == IF h = F4 THEN "stm32f4xx_hal_timebase_tim_template.c"
                       ELSE "stm32l0xx_hal_timebase_tim_template.c"
\* "startup_%s.s" % HAL_MCU_TYPE.lower(), and the same with .S
StartupS(m) == IF m = M_F429 THEN "startup_stm32f429xx.s" ELSE "startup_stm32l053xx.s"
StartupCapS(m) == IF m = M_F429 THEN "startup_stm32f429xx.S" ELSE "startup_stm32l053xx.S"

\* the names stm32_dir_pat = "stm32%s(xx|-stdperiph)" is found in
DirPatNames(h) == {Stm32xx(h), Stm32Stdperiph(h)}
\* the names stm32_h_pat = '(system_)*stm32%s.*.h$' is found in
HPatNames(h) == IF h = F4 THEN {"stm32f4xx.h", "system_stm32f4xx.h", "stm32f429xx.h"}
                ELSE {"stm32l0xx.h", "system_stm32l0xx.h", "stm32l053xx.h"}

\* "../system/include/stm32%sxx" % HAL_TYPE.lower(), as text
UpperCase == <<"A","B","C","D","E","F","G","H","I","J","K","L","M","N","O","P","Q","R","S","T","U","V","W","X","Y","Z">>
LowerCase == <<"a","b","c","d","e","f","g","h","i","j","k","l","m","n","o","p","q","r","s","t","u","v","w","x","y","z">>
LowerChar(c) == IF \E i \in 1..26 : UpperCase[i] = c
                THEN LowerCase[CHOOSE i \in 1..26 : UpperCase[i] = c] ELSE c
Lower(str) == [i \in 1..Len(str) |-> LowerChar(str[i])]
HalIncludePath(h) ==
    <<".",".","/","s","y","s","t","e","m","/","i","n","c","l","u","d","e","/","s","t","m","3","2">>
        \o Lower(h) \o <<"x","x">>

(***************************************************************************)
(* The steps of a run.  A step takes the tree of the Eclipse project and   *)
(* the parsed project and gives them back with the exception it raised.    *)
(***************************************************************************)
Step(fs, root, e) == [dfs |-> fs, root |-> root, err |-> e]

CmsisDeviceH == <<"system", "include", "cmsis", "cmsis_device.h">>
FixedInclude(h) == IF h = F4 THEN 14 ELSE 10

\* fixDeviceInclude: the file is written anew, its #include line naming
\* stm32<family>xx.h
FixDeviceInclude(fs, h) ==
    IF IsFile(fs, CmsisDeviceH)
    THEN WithEntries(fs, [q \in {CmsisDeviceH} |-> File(FixedInclude(h))])
    ELSE fs

\* the cleanup with its patterns formatted after the first deletions: src,
\* include and system/src/cmsis are emptied before HAL_TYPE is looked at
DeleteOriginalDeletingFirst(fs, h, dry) ==
    LET d1 == DeleteTreeContent(fs, <<"src">>, dry)
        d2 == DeleteTreeContent(d1.fs, <<"include">>, dry)
        d3 == DeleteTreeContent(d2.fs, <<"system", "src", "cmsis">>, dry)
    IN IF d1.err # NoError THEN d1
       ELSE IF d2.err # NoError THEN d2
       ELSE IF d3.err # NoError THEN d3
       ELSE [fs |-> d3.fs, err |-> IF h = None THEN "AttributeError" ELSE NoError]

\* deleteOriginalEclipseProjectFiles
DeleteOriginalEclipseProjectFiles(fs, h, dry) ==
    IF h = None THEN [fs |-> fs, err |-> "AttributeError"]
    ELSE IF dry THEN [fs |-> fs, err |-> NoError]
    ELSE
      LET d1 == DeleteTreeContent(fs, <<"src">>, dry)
          d2 == DeleteTreeContent(d1.fs, <<"include">>, dry)
          d3 == DeleteTreeContent(d2.fs, <<"system", "src", "cmsis">>, dry)
          p1 == Purge(d3.fs, <<"system", "include">>, DirPatNames(h))
          p2 == Purge(p1.fs, <<"system", "src">>, DirPatNames(h))
          p3 == Purge(p2.fs, <<"system", "include", "cmsis">>, HPatNames(h))
          m1 == MakeDirs(p3.fs, <<"system", "include", Stm32xx(h)>>)
          m2 == MakeDirs(m1.fs, <<"system", "src", Stm32xx(h)>>)
      IN IF d1.err # NoError THEN d1
         ELSE IF d2.err # NoError THEN d2
         ELSE IF d3.err # NoError THEN d3
         ELSE IF p1.err # NoError THEN p1
         ELSE IF p2.err # NoError THEN p2
         ELSE IF p3.err # NoError THEN p3
         ELSE IF m1.err # NoError THEN m1
         ELSE IF m2.err # NoError THEN m2
         ELSE [fs |-> FixDeviceInclude(m2.fs, h), err |-> NoError]

\* two copyTreeContent calls in a row, the second only if the first completes
CopyLocations(from, to, dry, s1, t1, o1, s2, t2, o2) ==
    LET c1 == CopyTreeContent(from, s1, to, t1, dry, o1) IN
    IF c1.err # NoError THEN c1
    ELSE CopyTreeContent(from, s2, c1.fs, t2, dry, o2)

\* importApplication
ImportApplication(from, to, dry, o1, o2) ==
    CopyLocations(from, to, dry, <<"Inc">>, <<"include">>, o1, <<"Src">>, <<"src">>, o2)

\* the three add* calls of a step on one list of values, each made only if
\* the one before raised nothing
AddToSections(root, dry, values, s1, s2, s3, quote) ==
    LET a1 == AddOptionValuesToProject(root, dry, values, s1, quote)
        a2 == AddOptionValuesToProject(a1.root, dry, values, s2, quote)
        a3 == AddOptionValuesToProject(a2.root, dry, values, s3, quote)
    IN IF a1.err # NoError THEN a1 ELSE IF a2.err # NoError THEN a2 ELSE a3

\* try: os.unlink(a); os.unlink(b) except OSError: pass
UnlinkBothIgnoring(fs, a, b) ==
    LET u1 == Unlink(fs, a) IN
    IF u1.err # NoError THEN fs ELSE Unlink(u1.fs, b).fs

\* importHAL
ImportHAL(from, to, root, h, m, dry, o1, o2) ==
    LET c == CopyLocations(from, to, dry,
                           <<"Drivers", HALDriver(h), "Inc">>, <<"system", "include", Stm32xx(h)>>, o1,
                           <<"Drivers", HALDriver(h), "Src">>, <<"system", "src", Stm32xx(h)>>, o2)
        a == AddToSections(root, dry, <<m>>, AsmDefs, CDefs, CPPDefs, FALSE)
    IN IF c.err # NoError THEN Step(c.fs, root, c.err)
       ELSE IF a.err # NoError THEN Step(c.fs, a.root, a.err)
       ELSE Step(IF dry THEN c.fs
                 ELSE UnlinkBothIgnoring(c.fs,
                          <<"system", "src", Stm32xx(h), MspTemplate(h)>>,
                          <<"system", "src", Stm32xx(h), TimebaseTemplate(h)>>),
                 a.root, NoError)

DeviceIncludeDir == <<"system", "include", "cmsis", "device">>
CmsisSourceDir == <<"system", "src", "cmsis">>
TemplatesDir(h) == <<"Drivers", "CMSIS", "Device", "ST", STM32xx(h), "Source", "Templates">>

\* the system and startup files importCMSIS takes, and cubeMXVersion
SystemFile(from, h) ==
    IF Exists(from, TemplatesDir(h) \o <<SystemC(h)>>)
    THEN TemplatesDir(h) \o <<SystemC(h)>> ELSE <<"Src", SystemC(h)>>

StartupFile(from, h, m) ==
    IF Exists(from, TemplatesDir(h) \o <<"gcc", StartupS(m)>>)
    THEN TemplatesDir(h) \o <<"gcc", StartupS(m)>> ELSE <<"startup", StartupS(m)>>

CubeMXVersion(from, h, m) ==
    IF ~Exists(from, TemplatesDir(h) \o <<"gcc", StartupS(m)>>) THEN 419
    ELSE IF ~Exists(from, TemplatesDir(h) \o <<SystemC(h)>>) THEN 418
    ELSE 417

\* the end of importCMSIS: the two files copied, the startup file renamed,
\* the system file of the application removed
RelocateSystemFiles(from, to, h, m) ==
    LET c1 == ShutilCopy(from, SystemFile(from, h), to, CmsisSourceDir)
        c2 == ShutilCopy(from, StartupFile(from, h, m), c1.fs, CmsisSourceDir)
        r == Rename(c2.fs, CmsisSourceDir \o <<StartupS(m)>>, CmsisSourceDir \o <<StartupCapS(m)>>)
        u == Unlink(r.fs, <<"src", SystemC(h)>>)
    IN IF c1.err # NoError THEN c1
       ELSE IF c2.err # NoError THEN c2
       ELSE IF r.err # NoError THEN r
       ELSE IF CubeMXVersion(from, h, m) >= 418 THEN u
       ELSE r

\* importCMSIS
ImportCMSIS(from, to, root, h, m, dry, o1, o2) ==
    LET made == IF dry THEN to ELSE Mkdir(to, DeviceIncludeDir).fs
        a1 == AddOptionValuesToProject(root, dry, <<HalIncludePath(h)>>, CIncludePaths, TRUE)
        a2 == AddOptionValuesToProject(a1.root, dry, <<HalIncludePath(h)>>, CPPIncludePaths, TRUE)
        a3 == AddToSections(a2.root, dry, <<P_DEVICE>>,
                            CIncludePaths, CPPIncludePaths, AsmIncludePaths, TRUE)
        c == CopyLocations(from, made, dry,
                           <<"Drivers", "CMSIS", "Device", "ST", STM32xx(h), "Include">>,
                           DeviceIncludeDir, o1,
                           <<"Drivers", "CMSIS", "Include">>, <<"system", "include", "cmsis">>, o2)
        f == RelocateSystemFiles(from, c.fs, h, m)
    IN IF a1.err # NoError THEN Step(made, a1.root, a1.err)
       ELSE IF a2.err # NoError THEN Step(made, a2.root, a2.err)
       ELSE IF a3.err # NoError THEN Step(made, a3.root, a3.err)
       ELSE IF c.err # NoError THEN Step(c.fs, a3.root, c.err)
       ELSE IF dry THEN Step(c.fs, a3.root, NoError)
       ELSE Step(f.fs, a3.root, f.err)

\* getAC6Includes: the values of the first include-paths option node of the
\* last .cproject met below sw4stm32projectpath
GetAC6Includes(src) ==
    IF Len(src.found) = 0 THEN [values |-> <<>>, err |-> InvalidSW4]
    ELSE IF Len(src.includes) = 0 THEN [values |-> <<>>, err |-> "IndexError"]
    ELSE [values |-> src.includes[1], err |-> NoError]

Str_Middlewares == <<"M","i","d","d","l","e","w","a","r","e","s">>
Str_UpUp == <<".",".","/",".",".","/">>
HasMiddlewares(inc) == Contains(inc, Str_Middlewares)

\* [inc.replace("../../", "") for inc in ... if "Middlewares" in inc]
MiddlewareIncludes(values) ==
    LET kept == SelectSeq(values, HasMiddlewares) IN
    [i \in 1..Len(kept) |-> Replace(kept[i], Str_UpUp, <<>>)]

\* os.walk(cubemxprojectpath) meets a folder of this name
FoundDir(from, name) == \E q \in DOMAIN from : Len(q) > 0 /\ q[Len(q)] = name /\ IsDir(from, q)

EthernetifTemplate ==
    <<"Middlewares", "Third_Party", "LwIP", "src", "netif", "ethernetif_template.c">>

\* the copy of the Middlewares folder, with the recovery of importMiddlewares:
\* EEXIST deletes the destination and starts again, another OSError is
\* caught and dropped
CopyMiddlewares(from, to, dry) ==
    LET c == CopyTree(from, <<"Middlewares">>, to, <<"Middlewares">>)
        rm == RmTree(to, <<"Middlewares">>)
        again == CopyTree(from, <<"Middlewares">>, rm.fs, <<"Middlewares">>)
    IN IF dry THEN [fs |-> to, err |-> NoError]
       ELSE IF c.err = "OSError.EEXIST"
            THEN IF rm.err # NoError THEN rm ELSE [fs |-> again.fs, err |-> NoError]
            ELSE [fs |-> c.fs, err |-> NoError]

\* the try: os.unlink(ethernetif_template) except OSError: pass, with no test
\* of dryrun before it
UnlinkLwIPTemplate(fs, from, dry) ==
    IF FoundDir(from, "LwIP") THEN Unlink(fs, EthernetifTemplate).fs ELSE fs

\* importMiddlewares
ImportMiddlewares(from, to, root, src, dry) ==
    IF ~FoundDir(from, "Middlewares") THEN Step(to, root, NoError)
    ELSE
      LET c == CopyMiddlewares(from, to, dry)
          g == GetAC6Includes(src)
          a == AddToSections(root, dry, MiddlewareIncludes(g.values),
                             CIncludePaths, CPPIncludePaths, AsmIncludePaths, TRUE)
          e == AddSourceEntriesToProject(a.root, <<"Middlewares">>)
      IN IF c.err # NoError THEN Step(c.fs, root, c.err)
         ELSE IF g.err # NoError THEN Step(c.fs, root, g.err)
         ELSE IF a.err # NoError THEN Step(c.fs, a.root, a.err)
         ELSE IF e.err # NoError THEN Step(c.fs, e.root, e.err)
         ELSE Step(UnlinkLwIPTemplate(c.fs, from, dry), e.root, NoError)

(***************************************************************************)
(* parseEclipseProjectFile.  etree.fromstring gives each attribute with    *)
(* its entities replaced by their characters; an & that begins no entity   *)
(* is a syntax error.                                                      *)
(***************************************************************************)
EntityAt(t, i) ==
    IF StartsAt(t, i, ENT_QUOT) THEN [len |-> 6, char |-> "\""]
    ELSE IF StartsAt(t, i, ENT_AMP) THEN [len |-> 5, char |-> "&"]
    ELSE IF StartsAt(t, i, ENT_LT) THEN [len |-> 4, char |-> "<"]
    ELSE IF StartsAt(t, i, ENT_GT) THEN [len |-> 4, char |-> ">"]
    ELSE [len |-> 0, char |-> ""]

RECURSIVE UnescapeFrom(_, _)
UnescapeFrom(t, i) ==
    IF i > Len(t) THEN <<>>
    ELSE IF t[i] = "&" /\ EntityAt(t, i).len > 0
         THEN <<EntityAt(t, i).char>> \o UnescapeFrom(t, i + EntityAt(t, i).len)
         ELSE <<t[i]>> \o UnescapeFrom(t, i + 1)

WellFormed(t) == \A i \in 1..Len(t) : (t[i] = "&" => EntityAt(t, i).len > 0) /\ t[i] # "<"

ParseEclipseProjectFile(file) ==
    IF ~file.exists THEN [root |-> EmptyProject, err |-> "IOError"]
    ELSE IF \E s \in Sections : \E k \in 1..Len(file.doc.options[s]) :
               \E j \in 1..Len(file.doc.options[s][k]) : ~WellFormed(file.doc.options[s][k][j])
    THEN [root |-> EmptyProject, err |-> "XMLSyntaxError"]
    ELSE [root |-> [options |-> [s \in Sections |->
                       [k \in 1..Len(file.doc.options[s]) |->
                          [j \in 1..Len(file.doc.options[s][k]) |->
                             UnescapeFrom(file.doc.options[s][k][j], 1)]]],
                    sourceEntries |-> file.doc.sourceEntries],
          err |-> NoError]

(***************************************************************************)
(* The descriptor patcher as a component: a caller holding a parsed        *)
(* project invokes the public add* methods and saveEclipseProjectFile.     *)
(***************************************************************************)
\* what etree.fromstring yields for value="&quot;../include&quot;"
Parsed(path) == QUOTE \o path \o QUOTE

InitialIncludeLists == {<<Parsed(P_INCLUDE)>>, <<Parsed(P_INCLUDE), Parsed(P_DEVICE)>>}
InitialMacroLists == {<<M_DEBUG>>, <<M_DEBUG, M_F429>>}
IncludeArgs == {<<P_DEVICE>>, <<P_HAL, P_DEVICE>>}
MacroArgs == {<<M_F429>>, <<M_L053>>}
EntryArgs == {<<"Middlewares">>}

\* a project with n build configurations
ProjectsOf(n) ==
    {[options |-> [s \in Sections |-> IF s \in IncludeSections THEN inc ELSE mac],
      sourceEntries |-> [k \in 1..n |-> <<"src">>]] :
        inc \in [1..n -> InitialIncludeLists], mac \in [1..n -> InitialMacroLists]}

InitialProjects == UNION {ProjectsOf(n) : n \in 1..MaxConfigs}

CallRecord(op, section, values, before, e) ==
    [op |-> op, section |-> section, values |-> values, before |-> before, err |-> e]

InitPatch ==
    /\ dryrun \in BOOLEAN
    /\ projectRoot \in InitialProjects
    /\ cprojectFile = [exists |-> TRUE, doc |-> SerializeProject(projectRoot)]
    /\ cprojectIO = [reads |-> 1, writes |-> 0]
    /\ call = CallRecord("parseEclipseProjectFile", "", <<>>, projectRoot, NoError)
    /\ ncalls = 0
    /\ memLD = [exists |-> FALSE, lines |-> <<>>]
    /\ memLDWrites = 0
    /\ log = <<>>
    /\ cubemx = NoCubeMXProject
    /\ paths = NoPaths
    /\ hal = NoHAL
    /\ sfs = EmptyFS
    /\ dfs = EmptyFS

\* one invocation of a method that edits an option section
Invoke(op, values, section, quote) ==
    /\ ncalls < MaxCalls
    /\ LET r == AddOptionValuesToProject(projectRoot, dryrun, values, section, quote) IN
         /\ projectRoot' = r.root
         /\ call' = CallRecord(op, section, values, projectRoot, r.err)
    /\ ncalls' = ncalls + 1
    /\ UNCHANGED <<dryrun, cprojectFile, cprojectIO, notPatch>>

AddAssemblerIncludes == \E v \in IncludeArgs : Invoke("addAssemblerIncludes", v, AsmIncludePaths, TRUE)

AddCIncludes == \E v \in IncludeArgs : Invoke("addCIncludes", v, CIncludePaths, TRUE)

AddCPPIncludes == \E v \in IncludeArgs : Invoke("addCPPIncludes", v, CPPIncludePaths, TRUE)

AddAssemblerMacros == \E v \in MacroArgs : Invoke("addAssemblerMacros", v, AsmDefs, FALSE)

AddCMacros == \E v \in MacroArgs : Invoke("addCMacros", v, CDefs, FALSE)

AddCPPMacros == \E v \in MacroArgs : Invoke("addCPPMacros", v, CPPDefs, FALSE)

AddSourceEntries ==
    \E e \in EntryArgs :
        /\ ncalls < MaxCalls
        /\ LET r == AddSourceEntriesToProject(projectRoot, e) IN
             /\ projectRoot' = r.root
             /\ call' = CallRecord("addSourceEntries", "sourceEntries", e, projectRoot, r.err)
            /\ ncalls' = ncalls + 1
        /\ UNCHANGED <<dryrun, cprojectFile, cprojectIO, notPatch>>

SaveProject ==
    /\ ncalls < MaxCalls
    /\ cprojectFile' = SaveEclipseProjectFile(projectRoot, dryrun, cprojectFile)
    /\ cprojectIO' = WrittenUnlessDry(cprojectIO, dryrun)
    /\ call' = CallRecord("saveEclipseProjectFile", "", <<>>, projectRoot, NoError)
    /\ ncalls' = ncalls + 1
    /\ UNCHANGED <<dryrun, projectRoot, notPatch>>

NextPatch ==
    \/ AddAssemblerIncludes
    \/ AddCIncludes
    \/ AddCPPIncludes
    \/ AddAssemblerMacros
    \/ AddCMacros
    \/ AddCPPMacros
    \/ AddSourceEntries
    \/ SaveProject

SpecPatch == InitPatch /\ [][NextPatch]_vars

AddOps == {"addAssemblerIncludes", "addCIncludes", "addCPPIncludes",
           "addAssemblerMacros", "addCMacros", "addCPPMacros"}
IncludeOps == {"addAssemblerIncludes", "addCIncludes", "addCPPIncludes"}
MacroOps == AddOps \ IncludeOps

\* the values of the option nodes of a section, in a project
NodesOf(root, section) == root.options[section]

\* a candidate is in a project's section in neither of its two forms
Absent(root, section, v) ==
    \A k \in 1..Len(NodesOf(root, section)) :
        LET have == Range(NodesOf(root, section)[k]) IN
        /\ v \notin have
        /\ QUOTE \o v \o QUOTE \notin have
        /\ ENT_QUOT \o v \o ENT_QUOT \notin have

\* this step invokes, with the one candidate v, the method the step before it
\* invoked with v, on a project that held v in no form before the two
TwiceInSuccession(v) ==
    /\ ~dryrun
    /\ call.op \in AddOps /\ call'.op = call.op
    /\ call.values = <<v>> /\ call'.values = <<v>>
    /\ call.err = NoError /\ call'.err = NoError
    /\ Absent(call.before, call.section, v)

SingleCandidates == {a[1] : a \in {x \in IncludeArgs \cup MacroArgs : Len(x) = 1}}

\* the option nodes of the section each hold one value-node more than before
\* the first of the two invocations
OneInserted ==
    \A k \in 1..Len(NodesOf(projectRoot', call.section)) :
        Len(NodesOf(projectRoot', call.section)[k])
            = Len(NodesOf(call.before, call.section)[k]) + 1

\* C1: invoking the patcher twice in succession with the same candidate, not
\* present at first, leaves exactly one inserted value-node for it in every
\* option node of the section, for include paths and for macros alike: the
\* second invocation appends nothing.
C1_IdempotentAppend ==
    [][\A v \in SingleCandidates :
          TwiceInSuccession(v) => (OneInserted /\ projectRoot' = projectRoot)]_vars

\* the macro half of C1, which the code satisfies
C1_MacroTwice ==
    [][\A v \in SingleCandidates :
          (TwiceInSuccession(v) /\ call.op \in MacroOps)
              => (OneInserted /\ projectRoot' = projectRoot)]_vars

\* the places of the value-nodes a step appended to option node k of a section
AppendedPlaces(old, new, section, k) ==
    (Len(NodesOf(old, section)[k]) + 1)..Len(NodesOf(new, section)[k])

ENT_AMP_QUOT == <<"&","a","m","p",";","q","u","o","t",";">>

\* every value-node this step appended carries wrap \o candidate \o wrap
AppendedCarry(wrap) ==
    \A k \in 1..Len(NodesOf(projectRoot', call'.section)) :
        \A j \in AppendedPlaces(projectRoot, projectRoot', call'.section, k) :
            \E i \in 1..Len(call'.values) :
                NodesOf(projectRoot', call'.section)[k][j]
                    = wrap \o call'.values[i] \o wrap

\* the file this step wrote holds, for every value-node the include-path
\* operation before it appended, &quot;<path>&quot; and no &amp;quot;
SavedQuoted ==
    \A k \in 1..Len(NodesOf(projectRoot, call.section)) :
        \A j \in AppendedPlaces(call.before, projectRoot, call.section, k) :
            LET text == NodesOf(cprojectFile'.doc, call.section)[k][j] IN
            /\ \E i \in 1..Len(call.values) :
                   text = ENT_QUOT \o call.values[i] \o ENT_QUOT
            /\ ~Contains(text, ENT_AMP_QUOT)

\* C8: a value-node appended by an include-path operation carries the path
\* wrapped in the quote-escape sequence, and the saved file then holds
\* &quot;<path>&quot; for it (not &amp;quot;); a value-node appended by a macro
\* operation carries the bare macro token.
C8_QuotingFidelity ==
    [][/\ call'.op \in IncludeOps => AppendedCarry(ENT_QUOT)
       /\ call'.op \in MacroOps => AppendedCarry(<<>>)
       /\ (call'.op = "saveEclipseProjectFile" /\ call.op \in IncludeOps /\ ~dryrun)
              => SavedQuoted]_vars

\* an include-path operation appended P_HAL, and the project was saved
C8_Witness ==
    /\ ~dryrun
    /\ call.op = "saveEclipseProjectFile"
    /\ \E s \in IncludeSections :
          \E k \in 1..Len(NodesOf(projectRoot, s)) :
              /\ ENT_QUOT \o P_HAL \o ENT_QUOT \in Range(NodesOf(projectRoot, s)[k])
              /\ ENT_QUOT \o P_HAL \o ENT_QUOT \in Range(NodesOf(cprojectFile.doc, s)[k])

(***************************************************************************)
(* patchMEM_LDFile.                                                        *)
(***************************************************************************)
FLASH_SP == <<"F","L","A","S","H"," ">>
ZEROS == <<"0","0","0","0","0","0","0","0">>
FLASH_BASE == <<"0","8","0","0","0","0","0","0">>

\* re.search("FLASH .([r,x])", line): "FLASH ", any character but a newline,
\* then one of r , x
FlashPattern(line) ==
    \E i \in 1..Len(line) :
        /\ StartsAt(line, i, FLASH_SP)
        /\ i + 7 <= Len(line)
        /\ line[i + 6] # "\n"
        /\ line[i + 7] \in {"r", ",", "x"}

PatchedLine(line) == IF FlashPattern(line) THEN Replace(line, ZEROS, FLASH_BASE) ELSE line

ChangedMessage == "Changed the FLASH region starting address from 0x00000000 to 0x08000000"

PatchMEM_LDFile(file, dry) ==
    IF ~file.exists
    THEN [file |-> file, written |-> FALSE, changed |-> FALSE, err |-> "IOError"]
    ELSE
      LET fcontent == [i \in 1..Len(file.lines) |-> PatchedLine(file.lines[i])]
          changed == \E i \in 1..Len(file.lines) : FlashPattern(file.lines[i])
      IN [file |-> IF changed /\ ~dry THEN [file EXCEPT !.lines = fcontent] ELSE file,
          written |-> changed /\ ~dry,
          changed |-> changed,
          err |-> NoError]

(***************************************************************************)
(* The linker-script patch as a component: a caller runs patchMEM_LDFile   *)
(* on a project whose mem.ld holds MEMORY region lines.                    *)
(***************************************************************************)
MaxLines == 2      \* lines of mem.ld

Str_FLASH == <<"F","L","A","S","H">>
Str_FLASHB1 == <<"F","L","A","S","H","B","1">>
Str_RAM == <<"R","A","M">>
RegionNames == {Str_FLASH, Str_FLASHB1, Str_RAM}
RAM_BASE == <<"2","0","0","0","0","0","0","0">>
Origins == {ZEROS, FLASH_BASE, RAM_BASE}
Len_128K == <<"1","2","8","K">>
Len_0x0 == <<"0","x">> \o ZEROS
Lengths == {Len_128K, Len_0x0}

Attributes(name) == IF name = Str_RAM THEN <<"(","x","r","w",")">> ELSE <<"(","r","x",")">>

\* "  FLASH (rx) : ORIGIN = 0x00000000, LENGTH = 128K\n"
MemLine(name, origin, length) ==
    <<" "," ">> \o name \o <<" ">> \o Attributes(name)
        \o <<" ",":"," ","O","R","I","G","I","N"," ","="," ","0","x">> \o origin
        \o <<","," ","L","E","N","G","T","H"," ","="," ">> \o length \o <<"\n">>

MemLines == {MemLine(n, o, l) : n \in RegionNames, o \in Origins, l \in Lengths}

MemFiles == UNION {[1..n -> MemLines] : n \in 1..MaxLines}

InitLD ==
    /\ dryrun \in BOOLEAN
    /\ memLD \in {[exists |-> TRUE, lines |-> f] : f \in MemFiles}
    /\ memLDWrites = 0
    /\ log = <<>>
    /\ call = CallRecord("__init__", "", <<>>, <<>>, NoError)
    /\ ncalls = 0
    /\ projectRoot = EmptyProject
    /\ cprojectFile = [exists |-> TRUE, doc |-> EmptyProject]
    /\ cprojectIO = NoIO
    /\ cubemx = NoCubeMXProject
    /\ paths = NoPaths
    /\ hal = NoHAL
    /\ sfs = EmptyFS
    /\ dfs = EmptyFS

PatchLinkerScript ==
    /\ ncalls < MaxCalls
    /\ LET r == PatchMEM_LDFile(memLD, dryrun) IN
         /\ memLD' = r.file
         /\ memLDWrites' = IF r.written THEN memLDWrites + 1 ELSE memLDWrites
         /\ log' = IF r.changed THEN Append(log, ChangedMessage) ELSE log
         /\ call' = CallRecord("patchMEM_LDFile", "", <<>>, <<>>, r.err)
    /\ ncalls' = ncalls + 1
    /\ UNCHANGED <<dryrun, notLD>>

NextLD == PatchLinkerScript

SpecLD == InitLD /\ [][NextLD]_vars

\* line i of mem.ld is the region line of these parts
IsMemLine(line, n, o, l) == line = MemLine(n, o, l)

\* C5: the patch rewrites only lines matching the flash-region pattern, and
\* on such a line only an all-zero origin, which becomes 08000000: the name,
\* the LENGTH value and a non-zero origin stay as they were, and so does every
\* line that does not match.
C5_OnlyZeroOrigin ==
    [][(call'.op = "patchMEM_LDFile" /\ ~dryrun) =>
          /\ Len(memLD'.lines) = Len(memLD.lines)
          /\ \A i \in 1..Len(memLD.lines) :
                \A n \in RegionNames, o \in Origins, l \in Lengths :
                    IsMemLine(memLD.lines[i], n, o, l) =>
                        memLD'.lines[i] =
                            MemLine(n,
                                    IF FlashPattern(memLD.lines[i]) /\ o = ZEROS
                                    THEN FLASH_BASE ELSE o,
                                    l)]_vars

\* C6: the script is written back, and a change reported, only when the text
\* of at least one line differs after the scan; a run on a script whose flash
\* origin is 08000000 already writes nothing and reports nothing.
C6_WriteOnlyOnChange ==
    [][call'.op = "patchMEM_LDFile" =>
          ((memLDWrites' # memLDWrites \/ log' # log) =>
              \E i \in 1..Len(memLD.lines) :
                  PatchedLine(memLD.lines[i]) # memLD.lines[i])]_vars

(***************************************************************************)
(* Path validation and detection as a component: a caller sets the two     *)
(* project paths of an importer, the folders being as Init draws them.     *)
(***************************************************************************)
MaxSymbols == 2    \* values of a preprocessor-symbols option node
MaxFound == 1      \* .cproject files below sw4stm32projectpath

M_USE_HAL == <<"U","S","E","_","H","A","L","_","D","R","I","V","E","R">>
SymbolPool == {M_USE_HAL, M_F429, M_L053, Str_STM32}
SymbolLists == UNION {[1..n -> SymbolPool] : n \in 0..MaxSymbols}

\* a .cproject: no option node of the class, or one with these values
SymbolDocs == {<<>>} \cup {<<l>> : l \in SymbolLists}

Text_AC6 == <<"f","r",".","a","c","6",".","m","a","n","a","g","e","d","b","u","i","l","d">>
Text_Atollic == <<"c","o","m",".","a","t","o","l","l","i","c">>
RootCprojects == {[exists |-> FALSE, text |-> <<>>],
                  [exists |-> TRUE, text |-> Text_AC6],
                  [exists |-> TRUE, text |-> Text_Atollic]}

\* a root .cproject is itself met by the walk from the root folder
CubeMXProjects ==
    {c \in [mxproject : BOOLEAN, sw4stm32 : BOOLEAN, cproject : RootCprojects,
            found : UNION {[1..n -> SymbolDocs] : n \in 0..MaxFound},
            includes : {<<>>}] :
        (~c.sw4stm32 /\ c.cproject.exists) => Len(c.found) >= 1}

InitDetect ==
    /\ dryrun = FALSE
    /\ cubemx \in CubeMXProjects
    /\ cprojectFile \in {[exists |-> e, doc |-> EmptyProject] : e \in BOOLEAN}
    /\ cprojectIO = NoIO
    /\ projectRoot = EmptyProject
    /\ paths = NoPaths
    /\ hal = NoHAL
    /\ call = CallRecord("__init__", "", <<>>, <<>>, NoError)
    /\ ncalls = 0
    /\ memLD = [exists |-> FALSE, lines |-> <<>>]
    /\ memLDWrites = 0
    /\ log = <<>>
    /\ sfs = EmptyFS
    /\ dfs = EmptyFS

CallSetEclipseProjectPath ==
    /\ ncalls < MaxCalls
    /\ LET r == SetEclipseProjectPath("eclipse_path", cprojectFile, paths) IN
         /\ paths' = r.paths
         /\ call' = CallRecord("setEclipseProjectPath", "", <<"eclipse_path">>, <<>>, r.err)
    /\ ncalls' = ncalls + 1
    /\ UNCHANGED <<dryrun, cubemx, hal, notDetect>>

CallSetCubeMXProjectPath ==
    /\ ncalls < MaxCalls
    /\ LET r == SetCubeMXProjectPath("cubemx_path", cubemx, paths, hal) IN
         /\ paths' = r.paths
         /\ hal' = r.hal
         /\ call' = CallRecord("setCubeMXProjectPath", "", <<"cubemx_path">>, <<>>, r.err)
    /\ ncalls' = ncalls + 1
    /\ UNCHANGED <<dryrun, cubemx, notDetect>>

NextDetect ==
    \/ CallSetEclipseProjectPath
    \/ CallSetCubeMXProjectPath

SpecDetect == InitDetect /\ [][NextDetect]_vars

\* the CubeMX folder passes the path validation
SourceAccepted ==
    /\ cubemx.mxproject
    /\ cubemx.sw4stm32 \/ (cubemx.cproject.exists /\ Contains(cubemx.cproject.text, Str_ac6))

\* the option node detectHALInfo reads: the first of the last file met
SymbolsRead == cubemx.found[Len(cubemx.found)][1]

DetectionRead ==
    /\ call.op = "setCubeMXProjectPath"
    /\ SourceAccepted
    /\ Len(cubemx.found) > 0
    /\ Len(cubemx.found[Len(cubemx.found)]) > 0

WithPrefix == {i \in 1..Len(SymbolsRead) : Contains(SymbolsRead[i], Str_STM32)}

\* C7: the first value of the preprocessor-symbols node that contains "STM32"
\* is the MCU identifier, a later one does not replace it, and the family
\* code is the [FL][0-9] token matched in that identifier.
C7_FirstIdentifier ==
    (DetectionRead /\ call.err = NoError /\ WithPrefix # {}) =>
        LET first == SymbolsRead[FirstPlace(WithPrefix)] IN
        /\ hal.HAL_MCU_TYPE = first
        /\ TokenPlaces(first) # {} =>
              hal.HAL_TYPE = <<first[FirstPlace(TokenPlaces(first))],
                               first[FirstPlace(TokenPlaces(first)) + 1]>>

\* the part of C7 the code satisfies: with STM32F429xx the one value holding
\* the prefix, the identifier is STM32F429xx and the family code F4
C7_SingleIdentifier ==
    (DetectionRead /\ Cardinality(WithPrefix) = 1
        /\ SymbolsRead[FirstPlace(WithPrefix)] = M_F429) =>
        /\ call.err = NoError
        /\ hal = [HAL_MCU_TYPE |-> M_F429, HAL_TYPE |-> <<"F","4">>]

\* C10: detection fails with InvalidSW4STM32Project both when no .cproject is
\* found below the tool-chain project path and when the file found holds no
\* option node of the preprocessor-symbols class.
C10_NotRecognized ==
    (call.op = "setCubeMXProjectPath" /\ SourceAccepted
        /\ (Len(cubemx.found) = 0 \/ Len(cubemx.found[Len(cubemx.found)]) = 0)) =>
        call.err = "InvalidSW4STM32Project"

\* the half of C10 the code satisfies: no .cproject found
C10_NoConfigFile ==
    (call.op = "setCubeMXProjectPath" /\ SourceAccepted /\ Len(cubemx.found) = 0) =>
        call.err = "InvalidSW4STM32Project"

MaxNames == 2      \* names a folder may hold

NamePool == <<"main.h", "stm32f4xx_it.h", "Legacy", "extra">>
EntryNames == {NamePool[i] : i \in 1..MaxNames}
SrcDir == <<"Inc">>
DstDir == <<"include">>
Kinds == {"absent", "file", "dir"}

\* folder d holding, for each name, nothing, a file, or a folder with one file
Populate(d, shape, data) ==
    LET files == {n \in DOMAIN shape : shape[n] = "file"}
        dirs == {n \in DOMAIN shape : shape[n] = "dir"}
        ps == {<<>>, d} \cup {d \o <<n>> : n \in files \cup dirs}
                  \cup {d \o <<n, "inner.h">> : n \in dirs}
    IN [p \in ps |->
          IF p = <<>> \/ p = d THEN Dir
          ELSE IF Len(p) = Len(d) + 1 /\ p[Len(p)] \in dirs THEN Dir
          ELSE File(data)]

InitMerge ==
    /\ dryrun \in BOOLEAN
    /\ \E shape \in [EntryNames -> Kinds] : sfs = Populate(SrcDir, shape, 1)
    /\ \E shape \in [EntryNames -> Kinds] : dfs = Populate(DstDir, shape, 2)
    /\ call = CallRecord("__init__", "", <<>>, dfs, NoError)
    /\ ncalls = 0
    /\ projectRoot = EmptyProject
    /\ cprojectFile = [exists |-> TRUE, doc |-> EmptyProject]
    /\ cprojectIO = NoIO
    /\ memLD = [exists |-> FALSE, lines |-> <<>>]
    /\ memLDWrites = 0
    /\ log = <<>>
    /\ cubemx = NoCubeMXProject
    /\ paths = NoPaths
    /\ hal = NoHAL

CallCopyTreeContent ==
    /\ ncalls < MaxCalls
    /\ \E order \in Orders(ListDir(sfs, SrcDir)) :
         LET r == CopyTreeContent(sfs, SrcDir, dfs, DstDir, dryrun, order) IN
           /\ dfs' = r.fs
           /\ call' = CallRecord("copyTreeContent", "", order, dfs, r.err)
    /\ ncalls' = ncalls + 1
    /\ UNCHANGED <<dryrun, sfs, notMerge>>

NextMerge == CallCopyTreeContent

SpecMerge == InitMerge /\ [][NextMerge]_vars

\* what is at path p and below it, in a tree
Subtree(fs, p) == [q \in Under(fs, p) |-> fs[q]]

\* copyTreeContent was invoked, src -> dst, outside dry-run
Merged == call.op = "copyTreeContent" /\ ~dryrun

SrcNames == ListDir(sfs, SrcDir)
DstNamesBefore == ListDir(call.before, DstDir)

\* C3: after copyTreeContent completes, every entry that was in dst and whose
\* name is not a top-level name of src is still there with what it held, and
\* (the copies being made, that is outside dry-run) every top-level entry of
\* src is in dst.
C3_MergeAdditive ==
    (call.op = "copyTreeContent" /\ call.err = NoError) =>
        /\ \A n \in DstNamesBefore \ SrcNames :
              Subtree(dfs, DstDir \o <<n>>) = Subtree(call.before, DstDir \o <<n>>)
        /\ ~dryrun => \A n \in SrcNames : Exists(dfs, DstDir \o <<n>>)

\* a merge completed that added an entry beside an unrelated one
C3_Witness ==
    /\ Merged /\ call.err = NoError
    /\ DstNamesBefore \ SrcNames # {}
    /\ SrcNames \ DstNamesBefore # {}

\* C4 as stated: an entry of dst with the name of an entry of src keeps what
\* it held and causes no failure, and the entries missing from dst are added.
C4_ExistingLeftAsIs ==
    Merged =>
        /\ call.err = NoError
        /\ \A n \in SrcNames \cap DstNamesBefore :
              Subtree(dfs, DstDir \o <<n>>) = Subtree(call.before, DstDir \o <<n>>)
        /\ \A n \in SrcNames \ DstNamesBefore : Exists(dfs, DstDir \o <<n>>)

\* the entries of src the copy cannot put in dst: a folder whose name is taken
\* in dst, a file whose name is a folder of dst
Blocked == {n \in SrcNames :
               \/ IsDir(sfs, SrcDir \o <<n>>) /\ Exists(call.before, DstDir \o <<n>>)
               \/ IsFile(sfs, SrcDir \o <<n>>) /\ IsDir(call.before, DstDir \o <<n>>)}

\* what the copy of entry n of src is
CopyOf(n) ==
    [p \in {DstDir \o SubSeq(q, Len(SrcDir) + 1, Len(q)) : q \in Under(sfs, SrcDir \o <<n>>)}
       |-> sfs[SrcDir \o SubSeq(p, Len(DstDir) + 1, Len(p))]]

\* C4 as amended: a file of dst with the name of a file of src is overwritten
\* with the source's content; a blocked entry makes the call fail, the entry
\* of dst that blocks it keeping what it held; with no blocked entry the call
\* completes and dst holds a copy of every entry of src.
C4_OverwriteOrFail ==
    Merged =>
        /\ call.err = NoError <=> Blocked = {}
        /\ call.err = NoError =>
              \A n \in SrcNames : Subtree(dfs, DstDir \o <<n>>) = CopyOf(n)
        /\ \A n \in Blocked :
              Subtree(dfs, DstDir \o <<n>>) = Subtree(call.before, DstDir \o <<n>>)
        /\ \A n \in (SrcNames \cap DstNamesBefore) \ Blocked :
              Subtree(dfs, DstDir \o <<n>>)
                  \in {Subtree(call.before, DstDir \o <<n>>), CopyOf(n)}

\* a merge completed that overwrote a file of dst
C4_Witness ==
    /\ Merged /\ call.err = NoError
    /\ \E n \in SrcNames \cap DstNamesBefore :
          /\ IsFile(call.before, DstDir \o <<n>>)
          /\ dfs[DstDir \o <<n>>] # call.before[DstDir \o <<n>>]


(***************************************************************************)
(* A run of the tool: the statements of __main__ in their order, on the    *)
(* two project folders Init draws.  An exception ends the run; the place   *)
(* of the run is the last method invoked, kept in call.                    *)
(***************************************************************************)
\* the folder holding files (each with this content) and, besides, these folders
TreeOf(files, dirs, data) ==
    [p \in {<<>>} \cup dirs \cup files \cup UNION {Ancestors(q) : q \in files \cup dirs} |->
        IF p \in files THEN File(data) ELSE Dir]

Middlewares == {"none", "FreeRTOS", "LwIP", "kept aside"}
Layouts == {417, 418, 419}

\* what CubeMX generates for family h and part m, with a middleware (or with
\* a Middlewares folder only below another folder of the project) and in the
\* layout of a CubeMX release
SourceFiles(h, m, mw, layout) ==
    {<<"Inc", "main.h">>, <<"Src", "main.c">>,
     <<"Drivers", HALDriver(h), "Inc", "hal.h">>,
     <<"Drivers", HALDriver(h), "Inc", "Legacy", "hal_legacy.h">>,
     <<"Drivers", HALDriver(h), "Src", "hal.c">>,
     <<"Drivers", HALDriver(h), "Src", MspTemplate(h)>>,
     <<"Drivers", "CMSIS", "Device", "ST", STM32xx(h), "Include", "device.h">>,
     <<"Drivers", "CMSIS", "Include", "core_cm4.h">>}
    \cup (IF layout >= 418 THEN {<<"Src", SystemC(h)>>}
          ELSE {TemplatesDir(h) \o <<SystemC(h)>>})
    \cup (IF layout >= 419 THEN {<<"startup", StartupS(m)>>}
          ELSE {TemplatesDir(h) \o <<"gcc", StartupS(m)>>})
    \cup (IF mw = "FreeRTOS"
          THEN {<<"Middlewares", "Third_Party", "FreeRTOS", "tasks.c">>} ELSE {})
    \cup (IF mw = "LwIP"
          THEN {<<"Middlewares", "Third_Party", "LwIP", "src", "netif", "ethernetif_template.c">>}
          ELSE {})
    \cup (IF mw = "kept aside"
          THEN {<<"Backup", "Middlewares", "Third_Party", "FreeRTOS", "tasks.c">>} ELSE {})

SourceTrees == {TreeOf(SourceFiles(F4, M_F429, mw, layout), {}, 1) :
                    mw \in Middlewares, layout \in Layouts}

\* what the GNU ARM plugin generates
TemplateFiles(h) ==
    {<<"src", "main.c">>, <<"include", "Timer.h">>,
     <<"system", "src", "cmsis", SystemC(h)>>,
     <<"system", "src", Stm32xx(h), "hal.c">>,
     <<"system", "include", Stm32xx(h), "hal.h">>,
     <<"system", "include", "cmsis", "stm32f4xx.h">>,
     CmsisDeviceH}

\* what an Eclipse project holds after files of a CubeMX project were put in it
ImportedFiles(h) ==
    TemplateFiles(h) \cup
    {EthernetifTemplate, DeviceIncludeDir \o <<"device.h">>, <<"include", "main.h">>}

DestinationTrees ==
    {TreeOf(TemplateFiles(F4), {}, 2),
     TreeOf(ImportedFiles(F4), {}, 2),
     TreeOf(TemplateFiles(F4) \ {<<"include", "Timer.h">>}, {}, 2)}

P_SRC_INC == <<".",".","/",".",".","/","I","n","c">>
P_SRC_LWIP == <<".",".","/",".",".","/","M","i","d","d","l","e","w","a","r","e","s","/","L","w","I","P">>

RunSymbols == {<<M_USE_HAL, M_F429>>, <<M_USE_HAL>>, <<M_USE_HAL, Str_STM32>>}
RunIncludes == {<<>>, <<<<P_SRC_INC, P_SRC_LWIP>>>>}

RunCubeMXProjects ==
    {[mxproject |-> TRUE, sw4stm32 |-> TRUE, cproject |-> [exists |-> FALSE, text |-> <<>>],
      found |-> <<<<syms>>>>, includes |-> incs] : syms \in RunSymbols, incs \in RunIncludes}
    \cup {NoCubeMXProject}

\* a project of n configurations as the plugin generates it, and one with no
\* option node for the macros of the C++ compiler
Generated(n) ==
    [options |-> [s \in Sections |->
                    [k \in 1..n |-> IF s \in IncludeSections THEN <<Parsed(P_INCLUDE)>>
                                    ELSE <<M_DEBUG>>]],
     sourceEntries |-> [k \in 1..n |-> <<"src">>]]

RunProjectFiles ==
    {[exists |-> TRUE, doc |-> SerializeProject(Generated(n))] : n \in 1..MaxConfigs}
    \cup {[exists |-> TRUE,
           doc |-> SerializeProject([Generated(1) EXCEPT !.options[CPPDefs] = <<>>])],
          [exists |-> FALSE, doc |-> EmptyProject]}

RunMemFiles ==
    {[exists |-> FALSE, lines |-> <<>>],
     [exists |-> TRUE, lines |-> <<MemLine(Str_FLASH, ZEROS, Len_128K)>>],
     [exists |-> TRUE, lines |-> <<MemLine(Str_FLASH, FLASH_BASE, Len_128K)>>]}

\* cubeImporter = CubeMXImporter()
InitRun ==
    /\ dryrun = FALSE
    /\ projectRoot = EmptyProject
    /\ cprojectFile \in RunProjectFiles
    /\ cprojectIO = NoIO
    /\ call = CallRecord("__init__", "", <<>>, <<>>, NoError)
    /\ ncalls = 0
    /\ memLD \in RunMemFiles
    /\ memLDWrites = 0
    /\ log = <<>>
    /\ cubemx \in RunCubeMXProjects
    /\ paths = NoPaths
    /\ hal = NoHAL
    /\ sfs \in SourceTrees
    /\ dfs \in DestinationTrees

\* the statement after the call of op is reached
After(op) == call.op = op /\ call.err = NoError

Called(op, e) ==
    /\ call' = CallRecord(op, "", <<>>, <<>>, e)
    /\ ncalls' = ncalls + 1

Logged(e, message) == IF e = NoError THEN Append(log, message) ELSE log

\* cubeImporter.setDryRun(args.dryrun)
MainSetDryRun ==
    /\ After("__init__")
    /\ \E d \in BOOLEAN : dryrun' = d
    /\ Called("setDryRun", NoError)
    /\ UNCHANGED <<patchVars, ldVars, detVars, fsVars>>

\* cubeImporter.eclipseProjectPath = args.eclipse_path
MainSetEclipseProjectPath ==
    /\ After("setDryRun")
    /\ LET r == SetEclipseProjectPath("eclipse_path", cprojectFile, paths) IN
         /\ paths' = r.paths
         /\ Called("setEclipseProjectPath", r.err)
    /\ UNCHANGED <<dryrun, patchVars, ldVars, cubemx, hal, fsVars>>

\* cubeImporter.cubeMXProjectPath = args.cubemx_path
MainSetCubeMXProjectPath ==
    /\ After("setEclipseProjectPath")
    /\ LET r == SetCubeMXProjectPath("cubemx_path", cubemx, paths, hal) IN
         /\ paths' = r.paths
         /\ hal' = r.hal
         /\ Called("setCubeMXProjectPath", r.err)
    /\ UNCHANGED <<dryrun, patchVars, ldVars, cubemx, fsVars>>

\* cubeImporter.parseEclipseProjectFile()
MainParseEclipseProjectFile ==
    /\ After("setCubeMXProjectPath")
    /\ LET r == ParseEclipseProjectFile(cprojectFile) IN
         /\ projectRoot' = IF r.err = NoError THEN r.root ELSE projectRoot
         /\ cprojectIO' = IF cprojectFile.exists THEN ReadOnce(cprojectIO) ELSE cprojectIO
         /\ Called("parseEclipseProjectFile", r.err)
    /\ UNCHANGED <<dryrun, cprojectFile, ldVars, detVars, fsVars>>

\* cubeImporter.deleteOriginalEclipseProjectFiles()
MainDeleteOriginalEclipseProjectFiles ==
    /\ After("parseEclipseProjectFile")
    /\ LET r == DeleteOriginalEclipseProjectFiles(dfs, hal.HAL_TYPE, dryrun) IN
         /\ dfs' = r.fs
         /\ log' = Logged(r.err, "Deleted unneeded files generated by GNU Eclipse plugin")
         /\ Called("deleteOriginalEclipseProjectFiles", r.err)
    /\ UNCHANGED <<dryrun, patchVars, memLD, memLDWrites, detVars, sfs>>

\* the orders os.listdir may give for folder d of the CubeMX project
ListOrders(d) == IF IsDir(sfs, d) THEN Orders(ListDir(sfs, d)) ELSE {<<>>}

\* cubeImporter.importApplication()
MainImportApplication ==
    /\ After("deleteOriginalEclipseProjectFiles")
    /\ \E o1 \in ListOrders(<<"Inc">>), o2 \in ListOrders(<<"Src">>) :
         LET r == ImportApplication(sfs, dfs, dryrun, o1, o2) IN
           /\ dfs' = r.fs
           /\ log' = Logged(r.err, "Successfully imported application files")
           /\ Called("importApplication", r.err)
    /\ UNCHANGED <<dryrun, patchVars, memLD, memLDWrites, detVars, sfs>>

\* cubeImporter.importHAL()
MainImportHAL ==
    /\ After("importApplication")
    /\ \E o1 \in ListOrders(<<"Drivers", HALDriver(hal.HAL_TYPE), "Inc">>),
          o2 \in ListOrders(<<"Drivers", HALDriver(hal.HAL_TYPE), "Src">>) :
         LET r == ImportHAL(sfs, dfs, projectRoot, hal.HAL_TYPE, hal.HAL_MCU_TYPE,
                            dryrun, o1, o2) IN
           /\ dfs' = r.dfs
           /\ projectRoot' = r.root
           /\ log' = Logged(r.err, "Successfully imported the STCubeHAL")
           /\ Called("importHAL", r.err)
    /\ UNCHANGED <<dryrun, cprojectFile, cprojectIO, memLD, memLDWrites, detVars, sfs>>

\* cubeImporter.importCMSIS()
MainImportCMSIS ==
    /\ After("importHAL")
    /\ \E o1 \in ListOrders(<<"Drivers", "CMSIS", "Device", "ST", STM32xx(hal.HAL_TYPE), "Include">>),
          o2 \in ListOrders(<<"Drivers", "CMSIS", "Include">>) :
         LET r == ImportCMSIS(sfs, dfs, projectRoot, hal.HAL_TYPE, hal.HAL_MCU_TYPE,
                              dryrun, o1, o2) IN
           /\ dfs' = r.dfs
           /\ projectRoot' = r.root
           /\ log' = Logged(r.err, "Successfully imported CMSIS files")
           /\ Called("importCMSIS", r.err)
    /\ UNCHANGED <<dryrun, cprojectFile, cprojectIO, memLD, memLDWrites, detVars, sfs>>

\* cubeImporter.importMiddlewares()
MainImportMiddlewares ==
    /\ After("importCMSIS")
    /\ LET r == ImportMiddlewares(sfs, dfs, projectRoot, cubemx, dryrun) IN
         /\ dfs' = r.dfs
         /\ projectRoot' = r.root
         /\ log' = IF FoundDir(sfs, "Middlewares")
                   THEN Logged(r.err, "Successfully imported Middlewares libraries")
                   ELSE log
         /\ Called("importMiddlewares", r.err)
    /\ UNCHANGED <<dryrun, cprojectFile, cprojectIO, memLD, memLDWrites, detVars, sfs>>

\* the save made one statement earlier, before importMiddlewares
MainSaveBeforeMiddlewares ==
    /\ After("importCMSIS")
    /\ cprojectFile' = SaveEclipseProjectFile(projectRoot, dryrun, cprojectFile)
    /\ cprojectIO' = WrittenUnlessDry(cprojectIO, dryrun)
    /\ Called("saveEclipseProjectFile", NoError)
    /\ UNCHANGED <<dryrun, projectRoot, ldVars, detVars, fsVars>>

\* cubeImporter.saveEclipseProjectFile()
MainSaveEclipseProjectFile ==
    /\ After("importMiddlewares")
    /\ cprojectFile' = SaveEclipseProjectFile(projectRoot, dryrun, cprojectFile)
    /\ cprojectIO' = WrittenUnlessDry(cprojectIO, dryrun)
    /\ Called("saveEclipseProjectFile", NoError)
    /\ UNCHANGED <<dryrun, projectRoot, ldVars, detVars, fsVars>>

\* cubeImporter.patchMEM_LDFile()
MainPatchMEM_LDFile ==
    /\ After("saveEclipseProjectFile")
    /\ LET r == PatchMEM_LDFile(memLD, dryrun) IN
         /\ memLD' = r.file
         /\ memLDWrites' = IF r.written THEN memLDWrites + 1 ELSE memLDWrites
         /\ log' = IF r.changed THEN Append(log, ChangedMessage) ELSE log
         /\ Called("patchMEM_LDFile", r.err)
    /\ UNCHANGED <<dryrun, patchVars, detVars, fsVars>>

NextRun ==
    \/ MainSetDryRun
    \/ MainSetEclipseProjectPath
    \/ MainSetCubeMXProjectPath
    \/ MainParseEclipseProjectFile
    \/ MainDeleteOriginalEclipseProjectFiles
    \/ MainImportApplication
    \/ MainImportHAL
    \/ MainImportCMSIS
    \/ MainImportMiddlewares
    \/ MainSaveEclipseProjectFile
    \/ MainPatchMEM_LDFile

SpecRun == InitRun /\ [][NextRun]_vars

\* C2: with dry-run enabled, no step of the run creates, overwrites, renames
\* or deletes a file or folder of the destination or of the source project,
\* the descriptor file and mem.ld are not written, and setCubeMXProjectPath
\* detects the MCU identifier and the family code as detectHALInfo gives
\* them whatever dryrun is.
C2_DryRunNoSideEffects ==
    [][dryrun =>
         /\ dfs' = dfs
         /\ sfs' = sfs
         /\ cprojectFile' = cprojectFile
         /\ memLD' = memLD
         /\ memLDWrites' = memLDWrites
         /\ (call'.op = "setCubeMXProjectPath" /\ call'.err = NoError
                => hal' = DetectHALInfo(cubemx.found, NoHAL).hal)]_vars

\* a dry run reaches the end of importMiddlewares on a source with LwIP
C2_DryRunMiddlewares ==
    dryrun /\ call.op = "importMiddlewares" /\ call.err = NoError /\ FoundDir(sfs, "LwIP")


(***************************************************************************)
(* Uniqueness of the values of a container of the descriptor.              *)
(***************************************************************************)
\* no value occurs twice in the node
NoDuplicate(node) == \A i, j \in 1..Len(node) : node[i] = node[j] => i = j

OptionNodesUnique(root, sections) ==
    \A s \in sections : \A k \in 1..Len(root.options[s]) : NoDuplicate(root.options[s][k])

SourceEntriesUnique(root) ==
    \A k \in 1..Len(root.sourceEntries) : NoDuplicate(root.sourceEntries[k])

\* C11: from a descriptor in which no container holds a duplicate, after any
\* sequence of include-path appends, macro appends and addSourceEntries, on
\* descriptors of one or several build configurations, no option node holds
\* the same path or macro twice and no sourceEntries node holds the same
\* folder entry twice.
C11_Uniqueness ==
    /\ OptionNodesUnique(projectRoot, Sections)
    /\ SourceEntriesUnique(projectRoot)

\* the part of C11 the code satisfies: the macros of a descriptor of one
\* build configuration
C11_MacrosOneConfiguration ==
    (\A s \in MacroSections : Len(projectRoot.options[s]) = 1) =>
        OptionNodesUnique(projectRoot, MacroSections)

\* two editing operations were made on a descriptor of several configurations
C11_TwoEdits ==
    /\ ncalls = 2
    /\ call.op \in AddOps \cup {"addSourceEntries"}
    /\ Len(projectRoot.sourceEntries) > 1


(***************************************************************************)
(* The errors of the file system in a run.                                 *)
(***************************************************************************)
\* the exception shutil.copytree raises in importMiddlewares, if it is called
MiddlewareCopyError ==
    IF FoundDir(sfs, "Middlewares") /\ ~dryrun
    THEN CopyTree(sfs, <<"Middlewares">>, dfs, <<"Middlewares">>).err
    ELSE NoError

\* C12: a file-system error of the middleware copy other than "destination
\* already exists" is not recovered: it ends the run as the exception of
\* importMiddlewares, and importMiddlewares does nothing after it.
C12_MiddlewareCopyErrorPropagates ==
    [][(After("importCMSIS") /\ MiddlewareCopyError \notin {NoError, "OSError.EEXIST"}) =>
          /\ call'.err = MiddlewareCopyError
          /\ projectRoot' = projectRoot
          /\ log' = log]_vars

\* the parts of C12 the code satisfies.  The destination of the middleware
\* copy already existing is recovered by a delete and a retry: the step
\* raises no error of the file system and the folder is the copy of the
\* source's.
C12_RecoveredByRetry ==
    [][(After("importCMSIS") /\ MiddlewareCopyError = "OSError.EEXIST"
           /\ IsDir(dfs, <<"Middlewares">>)) =>
          /\ call'.err \in {NoError, "IndexError"}
          /\ \A q \in Under(sfs, <<"Middlewares">>) \ {EthernetifTemplate} :
                Exists(dfs', q) /\ dfs'[q] = sfs[q]
          /\ \A q \in Under(dfs', <<"Middlewares">>) : Exists(sfs, q)]_vars

\* no step is made after a step that raised
C12_NoStepAfterError == [][call.err = NoError]_vars

\* the first copyTreeContent of a step failing ends the run with its error
C12_CopyErrorEndsRun ==
    [][(After("deleteOriginalEclipseProjectFiles") /\ ~IsDir(sfs, <<"Inc">>)) =>
          call'.err = "OSError.ENOENT"]_vars

\* a run outside dry-run came to the middleware copy with the destination
\* already there, and went on to save the project
C12_Witness ==
    /\ ~dryrun
    /\ call.op = "saveEclipseProjectFile"
    /\ FoundDir(sfs, "Middlewares")
    /\ IsDir(dfs, <<"Middlewares">>)


(***************************************************************************)
(* The life of the descriptor in a run.                                    *)
(***************************************************************************)
StepOrder == <<"parseEclipseProjectFile", "deleteOriginalEclipseProjectFiles",
               "importApplication", "importHAL", "importCMSIS", "importMiddlewares",
               "saveEclipseProjectFile", "patchMEM_LDFile">>

ImportSteps == {"importApplication", "importHAL", "importCMSIS", "importMiddlewares"}

\* C13: the steps of a run are made in the order parse, cleanup, import
\* application, import HAL, import CMSIS, import middleware, save, patch of
\* the linker script, each after the one before it completed; the descriptor
\* file is parsed once, by the parse step, and written once, by the save
\* step of a run outside dry-run, with the serialized tree, after the import
\* steps and before the linker script is patched; a dry run never writes it.
C13_Lifecycle ==
    [][/\ \A i \in 2..Len(StepOrder) :
             call'.op = StepOrder[i] => (call.op = StepOrder[i - 1] /\ call.err = NoError)
       /\ call'.op = StepOrder[1] => call.op = "setCubeMXProjectPath"
       /\ cprojectIO'.reads # cprojectIO.reads =>
             (call'.op = "parseEclipseProjectFile" /\ cprojectIO'.reads = 1)
       /\ cprojectIO'.writes # cprojectIO.writes =>
             /\ call'.op = "saveEclipseProjectFile" /\ ~dryrun
             /\ cprojectIO'.writes = 1
             /\ cprojectFile'.doc = SerializeProject(projectRoot)
       /\ cprojectFile' # cprojectFile => cprojectIO'.writes # cprojectIO.writes
       /\ (call'.op = "saveEclipseProjectFile" /\ ~dryrun) =>
             cprojectIO' = [reads |-> 1, writes |-> 1]
       /\ (call'.op = "patchMEM_LDFile" /\ ~dryrun) =>
             (cprojectIO = [reads |-> 1, writes |-> 1] /\ cprojectIO' = cprojectIO)
       /\ (memLD' # memLD \/ memLDWrites' # memLDWrites) => call'.op = "patchMEM_LDFile"
       /\ call'.op \in ImportSteps => cprojectIO' = [reads |-> 1, writes |-> 0]
       /\ dryrun => (cprojectIO'.writes = 0 /\ cprojectFile' = cprojectFile)]_vars

\* a run outside dry-run made every step, the descriptor parsed and written once
C13_CompleteRun ==
    /\ ~dryrun
    /\ call.op = "patchMEM_LDFile" /\ call.err = NoError
    /\ ncalls = 11
    /\ cprojectIO = [reads |-> 1, writes |-> 1]
    /\ memLDWrites = 1


(***************************************************************************)
(* What a run does to the Eclipse project before the two paths are         *)
(* accepted and the family code is known.                                  *)
(***************************************************************************)
\* both paths were accepted and detectHALInfo gave a family code
Validated ==
    /\ paths.eclipseprojectpath = <<"eclipse_path">>
    /\ paths.cubemxprojectpath = <<"cubemx_path">>
    /\ hal.HAL_TYPE # None
    /\ TokenPlaces(hal.HAL_MCU_TYPE) # {}

\* the last .cproject of the CubeMX project has a preprocessor-symbols node
\* none of whose values gives a family code
NoFamilyCode ==
    /\ Len(cubemx.found) > 0
    /\ Len(cubemx.found[Len(cubemx.found)]) > 0
    /\ \A i \in 1..Len(SymbolsRead) :
          ~Contains(SymbolsRead[i], Str_STM32) \/ TokenPlaces(SymbolsRead[i]) = {}

\* C14: no step of a run deletes, creates or modifies a file or folder of the
\* Eclipse project (mem.ld and the .cproject file among them) or edits the
\* parsed descriptor unless both paths were accepted and the family code was
\* detected before it; when the symbols node gives no family code the run
\* ends with an exception no later than the cleanup step, the Eclipse project
\* being as it was.
C14_NoMutationBeforeDetection ==
    [][/\ (\/ dfs' # dfs
           \/ cprojectFile' # cprojectFile
           \/ memLD' # memLD
           \/ (projectRoot' # projectRoot /\ call'.op # "parseEclipseProjectFile"))
          => Validated
       /\ (NoFamilyCode /\ call'.op \in {"setCubeMXProjectPath",
                                         "deleteOriginalEclipseProjectFiles"}) =>
             /\ dfs' = dfs
             /\ call'.op = "deleteOriginalEclipseProjectFiles" => call'.err # NoError
       /\ (NoFamilyCode /\ call'.op \in {StepOrder[i] : i \in 3..Len(StepOrder)}) => FALSE]_vars

\* a run outside dry-run whose symbols node names no MCU ended at the cleanup
C14_AbortedAtCleanup ==
    /\ ~dryrun
    /\ NoFamilyCode
    /\ call.op = "deleteOriginalEclipseProjectFiles"
    /\ call.err = "AttributeError"

=============================================================================
